---------------------------- MODULE Spec2Model ----------------------------
(***************************************************************************)
(* Dark Frame video editor: the clip list of VideoEditor.tsx and the       *)
(* operations that change it (upload, metadata load, seek, preview toggle, *)
(* cut, delete, drag, AI splice), with the segment arithmetic of the       *)
(* VideoProcessor.                                                         *)
(*                                                                         *)
(* Six specifications share the variables:                                 *)
(*   Spec           the editing session of VideoEditor.tsx;                *)
(*   PlayerSpec     VideoPlayer.tsx playing one clip list;                 *)
(*   CutDeleteSpec  a session of cuts and deletes with the player;         *)
(*   ExportSpec     ExportDialog.tsx and the trimVideo calls it starts;    *)
(*   PlaybackSpec   uninterrupted playback in Edited mode, with fairness;  *)
(*   RecordingSpec  recordingStore.ts with the RecordingService.           *)
(*                                                                         *)
(* Times are whole seconds.  A clip is the VideoClip record without its    *)
(* name and url, which no modelled operation reads.  React state updates   *)
(* made by one handler are applied together, so one handler is one step.   *)
(***************************************************************************)
EXTENDS Integers, Sequences, FiniteSets, TLC

\* ------------------------------------------------------------------ bounds
\* Longest uploaded asset, in seconds.
MaxDuration == 3
\* Largest reading of the millisecond clock (Date.now()).
MaxClock == 1
\* Events (user actions and callbacks) in one editing session.
MaxEvents == 6

\* ----------------------------------------------------------------- helpers
Min(a, b) == IF a < b THEN a ELSE b

Max(a, b) == IF a > b THEN a ELSE b

\* Durations an uploaded file can have.
AssetDurations == (MaxDuration - 1)..MaxDuration

\* Candidate start times a drag can deliver: before 0, inside, past the end.
DragTimes == (0 - 1)..(MaxDuration + 1)

\* ----------------------------------------------------------------- clip ids
\* Date.now().toString(), `before-${Date.now()}`, `processed-${Date.now()}`,
\* `after-${Date.now()}`: the prefix and the clock reading.
ClipId(kind, t) == [kind |-> kind, t |-> t]

\* selectedClipId = null
NoClip == [kind |-> "null", t |-> 0]

\* An id that no handler ever assigns.
UnknownId == [kind |-> "unknown", t |-> 0]

\* No AI request in flight
None == [tag |-> "none"]

VARIABLES
    clips,            \* useState<VideoClip[]>
    currentTime,      \* useState(0): the playhead
    duration,         \* useState(0): duration of the loaded asset
    selectedClipId,   \* useState<string | null>
    previewMode,      \* useState(false): FALSE = Original, TRUE = Edited
    mediaDuration,    \* duration of the media behind videoUrl, 0 = no video
    metadataPending,  \* the <video> has a new src and has not fired loadedmetadata
    now,              \* the clock read by Date.now()
    aiRequest,        \* the AI generation in flight, with the closure it will call
    events,           \* events handled so far in the session
    lastEvent,        \* the handler that ran last
    videoTime,        \* video.currentTime of the <video> element
    isPlaying,        \* useState(false): the play button
    videoPaused,      \* video.paused of the <video> element
    isExportDialogOpen, \* useState(false) of VideoEditor
    isExporting,      \* useState(false) of ExportDialog
    progress,         \* useState(0) of ExportDialog
    error,            \* useState<string | null>(null) of ExportDialog
    exportedBlob,     \* useState<Blob | null>(null) of ExportDialog
    exports,          \* the trimVideo calls started so far, each with its position
    store,            \* the state object of useRecordingStore
    recorder,         \* RecordingService.recorder and the state of the RecordRTC
    recordingStartTime, \* RecordingService.recordingStartTime
    screenTrackLive,  \* the shared screen track carries the 'ended' listener
    timers,           \* the handles of the setInterval timers that are active
    recordersCreated, \* recorders (and duration timers) created so far
    dateNow,          \* Date.now() as the recording service reads it
    startCall,        \* the startRecording call awaiting the service
    stopCall,         \* the stopRecording call awaiting the recorder
    stopResult        \* what recordingService.stopRecording() gave the store last

vars == <<clips, currentTime, duration, selectedClipId, previewMode,
          mediaDuration, metadataPending, now, aiRequest, events, lastEvent,
          videoTime, isPlaying, videoPaused, isExportDialogOpen, isExporting,
          progress, error, exportedBlob, exports, store, recorder,
          recordingStartTime, screenTrackLive, timers, recordersCreated,
          dateNow, startCall, stopCall, stopResult>>

\* The recording store, the recording service and their timers.
recordingVars == <<store, recorder, recordingStartTime, screenTrackLive, timers,
                   recordersCreated, dateNow, startCall, stopCall, stopResult>>

\* The export dialog and the exports it has started.
exportVars == <<isExportDialogOpen, isExporting, progress, error, exportedBlob,
                exports>>

\* The <video> element and the play button.
playerVars == <<videoTime, isPlaying, videoPaused>>

\* The editor's own state.
editorVars == <<clips, currentTime, duration, selectedClipId, previewMode,
                mediaDuration, metadataPending, now, aiRequest, events>>

\* One more event of the session, handled by handler.
EditorEvent(handler) ==
    /\ events < MaxEvents
    /\ events' = events + 1
    /\ lastEvent' = handler
    /\ UNCHANGED playerVars
    /\ UNCHANGED exportVars
    /\ UNCHANGED recordingVars

\* ------------------------------------------------------------ ExportDialog
\* A progress value, kept as a fraction: the loop of trimVideo reports
\* 10 + ((i + 1) / n) * 70.
Percent(p) == [num |-> p, den |-> 1]

\* error = null
NoError == "null"

\* exportedBlob = null
NoBlob == [tag |-> "null"]

\* new Blob([data], { type: 'video/mp4' })
Blob(data) == [tag |-> "Blob", data |-> data]

\* The dialog as it is mounted, and no export started.
DialogInit ==
    /\ isExportDialogOpen = FALSE
    /\ isExporting = FALSE
    /\ progress = Percent(0)
    /\ error = NoError
    /\ exportedBlob = NoBlob
    /\ exports = <<>>

\* ExportDialog.handleClose
handleClose ==
    /\ progress' = Percent(0)
    /\ error' = NoError
    /\ exportedBlob' = NoBlob
    /\ isExporting' = FALSE
    /\ isExportDialogOpen' = FALSE
    /\ UNCHANGED <<editorVars, playerVars, recordingVars, exports>>

\* --------------------------------------------------------- recording store
\* Recordings started in one session.
MaxRecordings == 2
\* Latest reading of Date.now() during the session; the first one is 1.
MaxDateNow == 3

\* recordingUrl = null
NoUrl == [tag |-> "null"]

\* No _durationTimer property on the state object
NoTimer == 0

\* RecordingService.recorder = null
NoRecorder == "null"

\* The blob the recorder of the k-th recording returns.
RecordedBlob(k, size) == [tag |-> "Blob", recording |-> k, size |-> size]

\* blob.size of a recorded blob: empty or not
BlobSizes == 0..1

\* URL.createObjectURL(blob)
createObjectURL(blob) == [tag |-> "url", recording |-> blob.recording]

\* recordingService.stopRecording() threw
Threw == [tag |-> "threw"]

\* set(partial) of the store: the state object with the fields of partial
\* replaced; every other property, _durationTimer included, is carried over.
set(s, partial) ==
    [k \in DOMAIN s |-> IF k \in DOMAIN partial THEN partial[k] ELSE s[k]]

\* The store as create() builds it, and the service singleton.
RecordingInit ==
    /\ store = [recordingState |-> "idle", recordingDuration |-> 0,
                recordingBlob |-> NoBlob, recordingUrl |-> NoUrl,
                error |-> NoError,
                recordingOptions |-> [video |-> TRUE, audio |-> TRUE,
                                      screen |-> TRUE, camera |-> FALSE],
                durationTimer |-> NoTimer]
    /\ recorder = NoRecorder
    /\ recordingStartTime = 0
    /\ screenTrackLive = FALSE
    /\ timers = {}
    /\ recordersCreated = 0
    /\ dateNow = 1
    /\ startCall = None
    /\ stopCall = FALSE
    /\ stopResult = None

\* The readings Date.now() can return: the last one again, or a later one.
ClockReadings == now..MaxClock

\* --------------------------------------------------------- VideoProcessor
RECURSIVE getPreviewDuration(_)
getPreviewDuration(cs) ==
    IF cs = <<>> THEN 0
    ELSE (Head(cs).endTime - Head(cs).startTime) + getPreviewDuration(Tail(cs))

\* [...clips].sort((a, b) => a.startTime - b.startTime): a copy of the list
\* in ascending startTime, clips with equal startTime keeping their order
\* (Array.prototype.sort is stable).
RECURSIVE InsertByStartTime(_, _)
InsertByStartTime(sorted, clip) ==
    IF sorted = <<>> THEN <<clip>>
    ELSE IF Head(sorted).startTime <= clip.startTime
         THEN <<Head(sorted)>> \o InsertByStartTime(Tail(sorted), clip)
         ELSE <<clip>> \o sorted

RECURSIVE SortByStartTime(_)
SortByStartTime(cs) ==
    IF cs = <<>> THEN <<>>
    ELSE InsertByStartTime(SortByStartTime(SubSeq(cs, 1, Len(cs) - 1)), cs[Len(cs)])

\* The loop of createPreviewSegments over the sorted clips, the running
\* preview time being previewStart.
RECURSIVE SegmentsFrom(_, _)
SegmentsFrom(sortedClips, previewStart) ==
    IF sortedClips = <<>> THEN <<>>
    ELSE LET clip == Head(sortedClips)
             clipDuration == clip.endTime - clip.startTime
         IN  <<[startTime |-> previewStart,
                endTime |-> previewStart + clipDuration,
                originalStart |-> clip.startTime,
                originalEnd |-> clip.endTime]>>
             \o SegmentsFrom(Tail(sortedClips), previewStart + clipDuration)

\* A faulty mapper: the segments are laid out in list order.
createPreviewSegmentsInListOrder(cs) == SegmentsFrom(cs, 0)

createPreviewSegments(cs) == SegmentsFrom(SortByStartTime(cs), 0)

\* A faulty mapper: at a time two segments share, the later segment answers.
getOriginalTimeOfLastMatch(previewTime, cs) ==
    LET segments == createPreviewSegments(cs)
        hits == {k \in 1..Len(segments) :
                    previewTime >= segments[k].startTime /\ previewTime <= segments[k].endTime}
    IN  IF hits = {} THEN 0
        ELSE LET k == CHOOSE h \in hits : \A g \in hits : h >= g
             IN  segments[k].originalStart + (previewTime - segments[k].startTime)

\* The first segment, in segment order, whose preview interval holds
\* previewTime; 0 when there is none.
getOriginalTime(previewTime, cs) ==
    LET segments == createPreviewSegments(cs)
        hits == {k \in 1..Len(segments) :
                    /\ previewTime >= segments[k].startTime
                    /\ previewTime <= segments[k].endTime}
    IN  IF hits = {} THEN 0
        ELSE LET k == CHOOSE h \in hits : \A g \in hits : h <= g
             IN  segments[k].originalStart + (previewTime - segments[k].startTime)

\* ------------------------------------------------------------ VideoEditor
effectiveDuration == IF previewMode THEN getPreviewDuration(clips) ELSE duration

effectiveCurrentTime ==
    IF previewMode THEN Min(currentTime, effectiveDuration) ELSE currentTime

\* clips.findIndex(c => c.id === id), 0 standing for -1
FindIndex(cs, id) ==
    IF \E i \in 1..Len(cs) : cs[i].id = id
    THEN CHOOSE i \in 1..Len(cs) :
            cs[i].id = id /\ \A j \in 1..(i - 1) : cs[j].id # id
    ELSE 0

NewClip(t) ==
    [id |-> ClipId("clip", t), startTime |-> 0, endTime |-> 0,
     duration |-> 0, position |-> 0]

\* d is the duration of the uploaded file, t the clock reading of the id.
handleFileUpload(d, t) ==
    /\ EditorEvent("handleFileUpload")
    /\ clips' = <<NewClip(t)>>
    /\ now' = t
    /\ mediaDuration' = d
    /\ metadataPending' = TRUE
    /\ UNCHANGED <<currentTime, duration, selectedClipId, previewMode, aiRequest>>

LoadedClips(cs, videoDuration) ==
    [i \in 1..Len(cs) |->
        [cs[i] EXCEPT !.duration = videoDuration, !.endTime = videoDuration]]

handleVideoLoaded ==
    /\ EditorEvent("handleVideoLoaded")
    /\ metadataPending
    /\ metadataPending' = FALSE
    /\ duration' = mediaDuration
    /\ clips' = IF Len(clips) > 0 THEN LoadedClips(clips, mediaDuration) ELSE clips
    /\ UNCHANGED <<currentTime, selectedClipId, previewMode, mediaDuration, now,
                   aiRequest>>

\* Timeline.handleTimelineClick: the clicked time, clamped to the timeline's
\* duration prop (effectiveDuration).
clampedTime(time) == Max(0, Min(effectiveDuration, time))

\* A click on the timeline outside frame selection, which the timeline ignores
\* while its duration prop is 0, then handleSeek.
handleSeek(time) ==
    /\ EditorEvent("handleSeek")
    /\ effectiveDuration # 0
    /\ currentTime' = clampedTime(time)
    /\ UNCHANGED <<clips, duration, selectedClipId, previewMode, mediaDuration,
                   metadataPending, now, aiRequest>>

\* A faulty toolbar: the preview button is never disabled.
CanTogglePreviewAlways == TRUE

\* The toolbar button is disabled without clips.
CanTogglePreview == Len(clips) > 0

handleTogglePreview ==
    /\ EditorEvent("handleTogglePreview")
    /\ CanTogglePreview
    /\ previewMode' = ~previewMode
    /\ currentTime' = 0
    /\ UNCHANGED <<clips, duration, selectedClipId, mediaDuration,
                   metadataPending, now, aiRequest>>

\* Timeline.handleClipMouseDown on clip i, released without a move: the clip
\* is selected.
handleClipMouseDown(i) ==
    /\ EditorEvent("handleClipMouseDown")
    /\ selectedClipId' = clips[i].id
    /\ UNCHANGED <<clips, currentTime, duration, previewMode, mediaDuration,
                   metadataPending, now, aiRequest>>

\* ---- cut
\* A faulty split: the second part keeps the position of the clip instead of
\* being offset by the length of the first part.
CutClipsSamePosition(cs, i, cutTime, t) ==
    LET clip == cs[i]
        first == [clip EXCEPT !.endTime = cutTime,
                              !.duration = cutTime - clip.startTime]
        secondClip == [clip EXCEPT !.id = ClipId("clip", t),
                                   !.startTime = cutTime,
                                   !.duration = clip.endTime - cutTime]
    IN  SubSeq(cs, 1, i - 1) \o <<first, secondClip>> \o SubSeq(cs, i + 1, Len(cs))

\* newClips of handleCut: the clip at index i split at cutTime, the second
\* part carrying the id read from the clock.
CutClips(cs, i, cutTime, t) ==
    LET clip == cs[i]
        first == [clip EXCEPT !.endTime = cutTime,
                              !.duration = cutTime - clip.startTime]
        secondClip == [clip EXCEPT !.id = ClipId("clip", t),
                                   !.startTime = cutTime,
                                   !.position = clip.position + (cutTime - clip.startTime),
                                   !.duration = clip.endTime - cutTime]
    IN  SubSeq(cs, 1, i - 1) \o <<first, secondClip>> \o SubSeq(cs, i + 1, Len(cs))

\* Faulty early returns: a playhead on a boundary of the clip is let through.
CutAppliesOnBoundary(cs, sel, cutTime) ==
    /\ sel # NoClip
    /\ FindIndex(cs, sel) # 0
    /\ ~(cutTime < cs[FindIndex(cs, sel)].startTime
         \/ cutTime > cs[FindIndex(cs, sel)].endTime)

\* The three early returns of handleCut.
CutApplies(cs, sel, cutTime) ==
    /\ sel # NoClip
    /\ FindIndex(cs, sel) # 0
    /\ ~(cutTime <= cs[FindIndex(cs, sel)].startTime
         \/ cutTime >= cs[FindIndex(cs, sel)].endTime)

\* t is the clock reading of the second part's id; a cut that returns early
\* does not read the clock.
handleCut(t) ==
    /\ EditorEvent("handleCut")
    /\ IF CutApplies(clips, selectedClipId, currentTime)
       THEN /\ clips' = CutClips(clips, FindIndex(clips, selectedClipId), currentTime, t)
            /\ now' = t
       ELSE /\ t = now
            /\ UNCHANGED <<clips, now>>
    /\ UNCHANGED <<currentTime, duration, selectedClipId, previewMode,
                   mediaDuration, metadataPending, aiRequest>>

\* ---- delete
\* clips.filter(clip => clip.id !== clipId)
FilterClips(cs, clipId) == SelectSeq(cs, LAMBDA clip : clip.id # clipId)

\* A faulty delete: always shows the edited video, also when nothing is left.
PreviewModeAlwaysEdited(newClips) == TRUE

\* The mode handleDeleteClip sets: Original when nothing is left, else Edited.
PreviewModeAfterDelete(newClips) == Len(newClips) # 0

\* The playhead handleDeleteClip sets.
CurrentTimeAfterDelete(newClips) == 0

handleDeleteClip(clipId) ==
    LET newClips == FilterClips(clips, clipId)
    IN  /\ EditorEvent("handleDeleteClip")
        /\ clips' = newClips
        /\ selectedClipId' = IF selectedClipId = clipId THEN NoClip ELSE selectedClipId
        /\ previewMode' = PreviewModeAfterDelete(newClips)
        /\ currentTime' = CurrentTimeAfterDelete(newClips)
        /\ UNCHANGED <<duration, mediaDuration, metadataPending, now,
                       aiRequest>>

\* The ids the delete handler is called with: a clip of the list, or none of them.
DeleteIds == {clips[i].id : i \in 1..Len(clips)} \cup {UnknownId}

\* ---- drag
\* A faulty drag: clamps against the duration the timeline shows (the preview
\* duration in Edited mode) instead of the asset's duration.
DragClipInTimeline(clip, newStartTime, totalDuration) ==
    LET clipDuration == clip.endTime - clip.startTime
    IN  [clip EXCEPT
            !.startTime = Max(0, Min(newStartTime, effectiveDuration - clipDuration)),
            !.endTime = Max(clipDuration, Min(newStartTime + clipDuration, effectiveDuration))]

DragClip(clip, newStartTime, totalDuration) ==
    LET clipDuration == clip.endTime - clip.startTime
    IN  [clip EXCEPT
            !.startTime = Max(0, Min(newStartTime, totalDuration - clipDuration)),
            !.endTime = Max(clipDuration, Min(newStartTime + clipDuration, totalDuration))]

DragClips(cs, clipId, newStartTime, totalDuration) ==
    [i \in 1..Len(cs) |->
        IF cs[i].id = clipId THEN DragClip(cs[i], newStartTime, totalDuration)
        ELSE cs[i]]

\* Timeline.handleClipMouseDown on clip i (which selects it) followed by a
\* mouse move, which the timeline ignores while its duration prop is 0.
handleClipDrag(i, newStartTime) ==
    /\ EditorEvent("handleClipDrag")
    /\ effectiveDuration # 0
    /\ selectedClipId' = clips[i].id
    /\ clips' = DragClips(clips, clips[i].id, newStartTime, duration)
    /\ UNCHANGED <<currentTime, duration, previewMode, mediaDuration,
                   metadataPending, now, aiRequest>>

\* ---- AI splice
\* Timeline.handleConfirmSelection: the two clicked times, ordered.
FrameRange(firstClick, secondClick) ==
    [startTime |-> Min(firstClick, secondClick),
     endTime |-> Max(firstClick, secondClick)]

\* The span must be longer than half a second.
FrameRangeAccepted(range) == 2 * (range.endTime - range.startTime) > 1

\* newClips of handleVideoProcessed: before, processed, after.  The handler
\* runs to completion synchronously; its Date.now() calls are taken to return
\* one reading t (the three ids differ in their prefix whatever it returns).
ReplacementClips(originalClip, startTime, endTime, t) ==
    LET beforeClip == [originalClip EXCEPT !.id = ClipId("before", t),
                                           !.endTime = startTime,
                                           !.duration = startTime - originalClip.startTime]
        processedClip == [id |-> ClipId("processed", t),
                          startTime |-> startTime, endTime |-> endTime,
                          duration |-> endTime - startTime, position |-> startTime]
        afterClip == [originalClip EXCEPT !.id = ClipId("after", t),
                                          !.startTime = endTime,
                                          !.duration = originalClip.endTime - endTime,
                                          !.position = endTime]
    IN  (IF startTime > originalClip.startTime THEN <<beforeClip>> ELSE <<>>)
        \o <<processedClip>>
        \o (IF endTime < originalClip.endTime THEN <<afterClip>> ELSE <<>>)

\* updatedClips.splice(originalClipIndex, 1, ...newClips)
SpliceClips(cs, originalClipIndex, newClips) ==
    SubSeq(cs, 1, originalClipIndex - 1) \o newClips
        \o SubSeq(cs, originalClipIndex + 1, Len(cs))

\* Timeline frame selection on clip i: "Edit with AI" selects the clip, two
\* timeline clicks (each clamped to the timeline's duration prop, each a seek)
\* set the ends, "Select Section" passes the span on, handleSelectFrameRange
\* opens the AI chat on it, and the chat sends its request
\* (AIChatBox.processVideoWithAI).  The request holds the onVideoProcessed of
\* that render: the handleVideoProcessed closure over the clips and the
\* selectedClipId of that moment, and the span.
handleSelectFrameRange(i, firstClick, secondClick) ==
    LET range == FrameRange(clampedTime(firstClick), clampedTime(secondClick))
    IN  /\ EditorEvent("handleSelectFrameRange")
        /\ effectiveDuration # 0
        /\ FrameRangeAccepted(range)
        /\ aiRequest = None
        /\ selectedClipId' = clips[i].id
        /\ currentTime' = clampedTime(secondClick)
        /\ aiRequest' = [clips |-> clips, selectedClipId |-> clips[i].id,
                         startTime |-> range.startTime, endTime |-> range.endTime]
        /\ UNCHANGED <<clips, duration, previewMode, mediaDuration,
                       metadataPending, now>>

\* The generation (or its 3 s simulated fallback) completes and calls the
\* closure captured when the request was sent.
handleVideoProcessed(t) ==
    /\ EditorEvent("handleVideoProcessed")
    /\ aiRequest # None
    /\ LET cs == aiRequest.clips
           originalClipIndex == FindIndex(cs, aiRequest.selectedClipId)
       IN  IF originalClipIndex = 0
           THEN /\ t = now
                /\ UNCHANGED <<clips, selectedClipId>>
           ELSE LET newClips == ReplacementClips(cs[originalClipIndex],
                                    aiRequest.startTime, aiRequest.endTime, t)
                IN  /\ clips' = SpliceClips(cs, originalClipIndex, newClips)
                    /\ selectedClipId' = ClipId("processed", t)
    /\ now' = t
    /\ aiRequest' = None
    /\ UNCHANGED <<currentTime, duration, previewMode, mediaDuration,
                   metadataPending>>

\* The subtitle dialog hands over the subtitled video: a new file and url
\* for the same footage, and the url of every clip replaced.  The <video>
\* gets the new src and will fire loadedmetadata again.
handleSubtitlesAdded ==
    /\ EditorEvent("handleSubtitlesAdded")
    /\ mediaDuration # 0
    /\ Len(clips) > 0
    /\ metadataPending' = TRUE
    /\ UNCHANGED <<clips, currentTime, duration, selectedClipId, previewMode,
                   mediaDuration, now, aiRequest>>

Init ==
    /\ clips = <<>>
    /\ currentTime = 0
    /\ duration = 0
    /\ selectedClipId = NoClip
    /\ previewMode = FALSE
    /\ mediaDuration = 0
    /\ metadataPending = FALSE
    /\ now = 0
    /\ aiRequest = None
    /\ events = 0
    /\ lastEvent = "none"
    /\ videoTime = 0
    /\ isPlaying = FALSE
    /\ videoPaused = TRUE
    /\ DialogInit
    /\ RecordingInit

Next ==
    \/ \E d \in AssetDurations : \E t \in ClockReadings : handleFileUpload(d, t)
    \/ handleVideoLoaded
    \/ \E time \in 0..effectiveDuration : handleSeek(time)
    \/ handleTogglePreview
    \/ \E i \in 1..Len(clips) : handleClipMouseDown(i)
    \/ \E t \in ClockReadings : handleCut(t)
    \/ \E clipId \in DeleteIds : handleDeleteClip(clipId)
    \/ \E i \in 1..Len(clips) : \E newStartTime \in DragTimes :
          handleClipDrag(i, newStartTime)
    \/ \E i \in 1..Len(clips) : \E firstClick, secondClick \in 0..effectiveDuration :
          handleSelectFrameRange(i, firstClick, secondClick)
    \/ \E t \in ClockReadings : handleVideoProcessed(t)
    \/ handleSubtitlesAdded

Spec == Init /\ [][Next]_vars

\* ------------------------------------------------------------ VideoPlayer
\* The editing specification leaves the <video> element alone.  PlayerSpec
\* plays one clip list in the VideoPlayer: the media advances, the element
\* fires timeupdate and ended, the user seeks and presses play.

\* Most clips in a played list.
MaxPlayerClips == 2

\* Length of the played asset, in seconds: long enough for a gap between two
\* clips of positive length to hold a whole second.
PlayerDuration == MaxDuration + 1

Abs(x) == IF x < 0 THEN 0 - x ELSE x

\* An event of the <video> element or of the player's controls.
PlayerEvent(handler) ==
    /\ lastEvent' = handler
    /\ UNCHANGED exportVars
    /\ UNCHANGED recordingVars

\* [startTime, endTime] of a clip inside the asset.
PlayerIntervals ==
    {iv \in (0..PlayerDuration) \X (0..PlayerDuration) : iv[1] <= iv[2]}

PlayerClip(k, iv) ==
    [id |-> ClipId("clip", k), startTime |-> iv[1], endTime |-> iv[2],
     duration |-> iv[2] - iv[1], position |-> iv[1]]

\* The clip lists handed to the VideoPlayer, in any order, overlapping or not.
PlayerClipLists ==
    UNION {{[k \in 1..n |-> PlayerClip(k, ivs[k])] : ivs \in [1..n -> PlayerIntervals]} :
              n \in 0..MaxPlayerClips}

\* The seek effect: the position the element has after the effect has run
\* with the currentTime prop time.
seekEffect(videoT, time, mode, cs) ==
    IF mode /\ Len(cs) > 0
    THEN LET originalTime == getOriginalTime(time, cs)
         IN  IF 2 * Abs(videoT - originalTime) > 1 THEN originalTime ELSE videoT
    ELSE IF 2 * Abs(videoT - time) > 1 THEN time ELSE videoT

\* clips.find(clip => t >= clip.startTime && t <= clip.endTime) finds a clip
InCurrentClip(t, cs) ==
    \E i \in 1..Len(cs) : t >= cs[i].startTime /\ t <= cs[i].endTime

\* segments.find(seg => seg.originalStart <= t && seg.originalEnd >= t), as an
\* index into createPreviewSegments(cs), 0 standing for undefined
FindSegment(t, cs) ==
    LET segments == createPreviewSegments(cs)
        hits == {k \in 1..Len(segments) :
                    segments[k].originalStart <= t /\ segments[k].originalEnd >= t}
    IN  IF hits = {} THEN 0 ELSE CHOOSE h \in hits : \A g \in hits : h <= g

\* previewTime of handleTimeUpdate for the media position t inside a clip
previewTimeAt(t, cs) ==
    LET segment == createPreviewSegments(cs)[FindSegment(t, cs)]
    IN  segment.startTime + (t - segment.originalStart)

\* The start times of the clips that begin after t.
LaterStarts(t, cs) == {cs[i].startTime : i \in {j \in 1..Len(cs) : cs[j].startTime > t}}

\* A faulty player: the first later clip in list order is the next clip.
NextClipStartInListOrder(t, cs) ==
    LET later == {j \in 1..Len(cs) : cs[j].startTime > t}
    IN  cs[CHOOSE j \in later : \A i \in later : j <= i].startTime

\* nextClip.startTime of handleTimeUpdate
NextClipStart(t, cs) ==
    CHOOSE s \in LaterStarts(t, cs) : \A r \in LaterStarts(t, cs) : s <= r

\* The currentTime prop the VideoPlayer gets when the editor's currentTime is time.
currentTimeProp(time) ==
    IF previewMode THEN Min(time, effectiveDuration) ELSE time

\* onTimeUpdate(time): VideoEditor.handleTimeUpdate stores the time, and the
\* seek effect runs if the currentTime prop has changed.
onTimeUpdate(time) ==
    /\ currentTime' = time
    /\ videoTime' = IF currentTimeProp(time) # effectiveCurrentTime
                    THEN seekEffect(videoTime, currentTimeProp(time), previewMode, clips)
                    ELSE videoTime

\* The timeupdate event of the <video>.  A throttled event changes nothing
\* and is no step.
VideoPlayer_handleTimeUpdate ==
    /\ PlayerEvent("VideoPlayer.handleTimeUpdate")
    /\ IF previewMode /\ Len(clips) > 0
       THEN IF InCurrentClip(videoTime, clips)
            THEN /\ IF FindSegment(videoTime, clips) # 0
                    THEN onTimeUpdate(previewTimeAt(videoTime, clips))
                    ELSE UNCHANGED <<currentTime, videoTime>>
                 /\ UNCHANGED videoPaused
            ELSE IF LaterStarts(videoTime, clips) # {}
                 THEN /\ videoTime' = NextClipStart(videoTime, clips)
                      /\ UNCHANGED <<currentTime, videoPaused>>
                 ELSE /\ videoPaused' = TRUE
                      /\ onTimeUpdate(getPreviewDuration(clips))
       ELSE /\ onTimeUpdate(videoTime)
            /\ UNCHANGED videoPaused
    /\ UNCHANGED <<clips, duration, selectedClipId, previewMode, mediaDuration,
                   metadataPending, now, aiRequest, events, isPlaying>>

\* The media plays on by one second.
VideoPlays ==
    /\ ~videoPaused
    /\ videoTime < mediaDuration
    /\ videoTime' = videoTime + 1
    /\ PlayerEvent("VideoPlays")
    /\ UNCHANGED <<editorVars, isPlaying, videoPaused>>

\* The ended event of the <video>: playback has reached the end of the media.
\* clips.sort sorts the clips prop itself.
VideoPlayer_handleVideoEnded ==
    /\ ~videoPaused
    /\ videoTime = mediaDuration
    /\ PlayerEvent("VideoPlayer.handleVideoEnded")
    /\ IF previewMode /\ Len(clips) > 0
       THEN /\ clips' = SortByStartTime(clips)
            /\ videoTime' = SortByStartTime(clips)[1].startTime
            /\ videoPaused' = IF isPlaying THEN FALSE ELSE videoPaused
       ELSE UNCHANGED <<clips, videoTime, videoPaused>>
    /\ UNCHANGED <<currentTime, duration, selectedClipId, previewMode,
                   mediaDuration, metadataPending, now, aiRequest, events,
                   isPlaying>>

\* A click on the timeline: handleSeek, then the seek effect.
VideoPlayer_seek(time) ==
    /\ effectiveDuration # 0
    /\ PlayerEvent("VideoPlayer.seek")
    /\ onTimeUpdate(clampedTime(time))
    /\ UNCHANGED <<clips, duration, selectedClipId, previewMode, mediaDuration,
                   metadataPending, now, aiRequest, events, isPlaying,
                   videoPaused>>

\* The play button: handlePlay, then the play/pause effect.
handlePlay ==
    /\ PlayerEvent("handlePlay")
    /\ isPlaying' = ~isPlaying
    /\ videoPaused' = isPlaying
    /\ UNCHANGED <<editorVars, videoTime>>

\* A click on the video toggles the element, not the play button.
handleVideoClick ==
    /\ PlayerEvent("handleVideoClick")
    /\ videoPaused' = ~videoPaused
    /\ UNCHANGED <<editorVars, videoTime, isPlaying>>

PlayerInit ==
    /\ clips \in PlayerClipLists
    /\ previewMode \in (IF clips = <<>> THEN {FALSE} ELSE BOOLEAN)
    /\ currentTime = 0
    /\ duration = PlayerDuration
    /\ mediaDuration = PlayerDuration
    /\ selectedClipId = NoClip
    /\ metadataPending = FALSE
    /\ now = 0
    /\ aiRequest = None
    /\ events = 0
    /\ lastEvent = "none"
    /\ videoTime = 0
    /\ isPlaying = FALSE
    /\ videoPaused = TRUE
    /\ DialogInit
    /\ RecordingInit

PlayerNext ==
    \/ VideoPlays
    \/ VideoPlayer_handleTimeUpdate
    \/ VideoPlayer_handleVideoEnded
    \/ \E time \in 0..effectiveDuration : VideoPlayer_seek(time)
    \/ handlePlay
    \/ handleVideoClick

PlayerSpec == PlayerInit /\ [][PlayerNext]_vars

\* ---------------------------------------------------------------- playback
\* Playback of one clip list in Edited mode with no user input: the preview
\* has been switched on, which puts the playhead at 0 and, through the seek
\* effect, the media at the start of the first segment, and play has been
\* pressed.
PlaybackInit ==
    /\ clips \in PlayerClipLists
    /\ Len(clips) > 0
    /\ previewMode = TRUE
    /\ currentTime = 0
    /\ duration = PlayerDuration
    /\ mediaDuration = PlayerDuration
    /\ selectedClipId = NoClip
    /\ metadataPending = FALSE
    /\ now = 0
    /\ aiRequest = None
    /\ events = 0
    /\ lastEvent = "handlePlay"
    /\ videoTime = getOriginalTime(0, clips)
    /\ isPlaying = TRUE
    /\ videoPaused = FALSE
    /\ DialogInit
    /\ RecordingInit

PlaybackNext ==
    \/ VideoPlays
    \/ VideoPlayer_handleTimeUpdate
    \/ VideoPlayer_handleVideoEnded

\* A playing <video> keeps playing, keeps firing timeupdate, and fires ended
\* at the end of the media.
PlaybackSpec ==
    /\ PlaybackInit
    /\ [][PlaybackNext]_vars
    /\ WF_vars(VideoPlays)
    /\ WF_vars(VideoPlayer_handleTimeUpdate)
    /\ WF_vars(VideoPlayer_handleVideoEnded)

\* ---------------------------------------------------------- cut and delete
\* An editing session that changes the clip list by Cut and Delete alone,
\* with the VideoPlayer playing the list.
CutDeleteNext ==
    \/ \E d \in AssetDurations : \E t \in ClockReadings : handleFileUpload(d, t)
    \/ handleVideoLoaded
    \/ \E i \in 1..Len(clips) : handleClipMouseDown(i)
    \/ \E t \in ClockReadings : handleCut(t)
    \/ \E clipId \in DeleteIds : handleDeleteClip(clipId)
    \/ \E time \in 0..effectiveDuration : VideoPlayer_seek(time)
    \/ handlePlay
    \/ VideoPlays
    \/ VideoPlayer_handleTimeUpdate

\* The session starts from one uploaded clip whose metadata has loaded.
CutDeleteInit ==
    \E d \in AssetDurations :
        /\ clips = LoadedClips(<<NewClip(0)>>, d)
        /\ currentTime = 0
        /\ duration = d
        /\ selectedClipId = NoClip
        /\ previewMode = FALSE
        /\ mediaDuration = d
        /\ metadataPending = FALSE
        /\ now = 0
        /\ aiRequest = None
        /\ events = 0
        /\ lastEvent = "handleVideoLoaded"
        /\ videoTime = 0
        /\ isPlaying = FALSE
        /\ videoPaused = TRUE
        /\ DialogInit
        /\ RecordingInit

CutDeleteSpec == CutDeleteInit /\ [][CutDeleteNext]_vars

\* ------------------------------------------------------------------ export
\* ExportSpec exports one clip list: the user opens, dismisses and reopens
\* the export dialog and presses Export Video; every trimVideo call started
\* runs step by step, each await succeeding or failing.

\* Most exports started in one session.
MaxExports == 2

\* A faulty loop: the segments fill the bar to 100.
SegmentProgressToFull(i, n) == [num |-> 10 * n + i * 90, den |-> n]

\* The value of the loop's progress report after segment i of n.
SegmentProgress(i, n) == [num |-> 10 * n + i * 70, den |-> n]

\* a <= b for progress values
ProgressLeq(a, b) == a.num * b.den <= b.num * a.den

\* ffmpeg.exec(['-i', 'input.mp4', '-ss', startTime, '-t', duration, ...]):
\* the source interval the segment file holds.
ExtractedInterval(clip) ==
    LET clipDuration == clip.endTime - clip.startTime
    IN  [originalStart |-> clip.startTime, originalEnd |-> clip.startTime + clipDuration]

\* A faulty export: the clips are extracted in list order.
NewExportInListOrder(cs) ==
    [pc |-> "writeInput", sortedClips |-> cs,
     segmentFiles |-> <<>>, reported |-> <<>>, data |-> <<>>]

\* A trimVideo call right after its guards: the sorted copy of the clip list.
NewExport(cs) ==
    [pc |-> "writeInput", sortedClips |-> SortByStartTime(cs),
     segmentFiles |-> <<>>, reported |-> <<>>, data |-> <<>>]

\* The exports whose promise has not settled.
InFlight == {e \in 1..Len(exports) : exports[e].pc \notin {"resolved", "rejected"}}

\* onProgress(value) of export e, which moves to the position pc: the dialog's
\* callback stores the value.
onProgress(e, value, pc) ==
    /\ progress' = value
    /\ exports' = [exports EXCEPT ![e].pc = pc,
                                  ![e].reported = Append(@, value)]

\* ToolBar Export button, disabled without clips.
openExportDialog ==
    /\ lastEvent' = "openExportDialog"
    /\ ~isExportDialogOpen
    /\ Len(clips) > 0
    /\ isExportDialogOpen' = TRUE
    /\ UNCHANGED <<editorVars, playerVars, recordingVars, isExporting, progress, error,
                   exportedBlob, exports>>

\* The Export Video button is disabled while isExporting.
ExportButtonEnabled == ~isExporting

\* The Export Video button, shown while there is no exported blob:
\* ExportDialog.handleExport up to its await, VideoEditor.handleExport and the
\* guards of trimVideo.
ExportDialog_handleExport ==
    /\ lastEvent' = "ExportDialog.handleExport"
    /\ isExportDialogOpen
    /\ exportedBlob = NoBlob
    /\ ExportButtonEnabled
    /\ Len(exports) < MaxExports
    /\ progress' = Percent(0)
    /\ exportedBlob' = NoBlob
    /\ IF mediaDuration = 0 \/ Len(clips) = 0
       THEN /\ error' = "No video or clips to export"
            /\ isExporting' = FALSE
            /\ exports' = Append(exports, [NewExport(clips) EXCEPT !.pc = "rejected"])
       ELSE /\ error' = NoError
            /\ isExporting' = TRUE
            /\ exports' = Append(exports, NewExport(clips))
    /\ UNCHANGED <<editorVars, playerVars, recordingVars, isExportDialogOpen>>

\* await ffmpeg.writeFile('input.mp4', ...) has succeeded.
writeInputFile(e) ==
    /\ lastEvent' = "writeInputFile"
    /\ exports[e].pc = "writeInput"
    /\ onProgress(e, Percent(10), "extract")
    /\ UNCHANGED <<editorVars, playerVars, recordingVars, isExportDialogOpen, isExporting,
                   error, exportedBlob>>

\* One round of the loop: await ffmpeg.exec(...) for the next clip has succeeded.
extractSegment(e) ==
    /\ lastEvent' = "extractSegment"
    /\ exports[e].pc = "extract"
    /\ LET i == Len(exports[e].segmentFiles) + 1
           n == Len(exports[e].sortedClips)
           value == SegmentProgress(i, n)
       IN  /\ progress' = value
           /\ exports' = [exports EXCEPT
                  ![e].segmentFiles = Append(@, ExtractedInterval(exports[e].sortedClips[i])),
                  ![e].reported = Append(@, value),
                  ![e].pc = IF i = n THEN "writeConcat" ELSE "extract"]
    /\ UNCHANGED <<editorVars, playerVars, recordingVars, isExportDialogOpen, isExporting,
                   error, exportedBlob>>

\* await ffmpeg.writeFile('concat.txt', ...) has succeeded.
writeConcatFile(e) ==
    /\ lastEvent' = "writeConcatFile"
    /\ exports[e].pc = "writeConcat"
    /\ onProgress(e, Percent(85), "concat")
    /\ UNCHANGED <<editorVars, playerVars, recordingVars, isExportDialogOpen, isExporting,
                   error, exportedBlob>>

\* await ffmpeg.exec(['-f', 'concat', ...]) has succeeded.
concatenate(e) ==
    /\ lastEvent' = "concatenate"
    /\ exports[e].pc = "concat"
    /\ onProgress(e, Percent(95), "readOutput")
    /\ UNCHANGED <<editorVars, playerVars, recordingVars, isExportDialogOpen, isExporting,
                   error, exportedBlob>>

\* await ffmpeg.readFile('output.mp4') has succeeded: data is the segment
\* files in the order of concat.txt.
readOutputFile(e) ==
    /\ lastEvent' = "readOutputFile"
    /\ exports[e].pc = "readOutput"
    /\ exports' = [exports EXCEPT ![e].pc = "cleanup",
                                  ![e].data = exports[e].segmentFiles]
    /\ UNCHANGED <<editorVars, playerVars, recordingVars, isExportDialogOpen, isExporting,
                   progress, error, exportedBlob>>

\* The clean-up is over: onProgress(100), trimVideo returns the blob, and
\* ExportDialog.handleExport goes on after its await.
exportResolved(e) ==
    /\ lastEvent' = "exportResolved"
    /\ exports[e].pc = "cleanup"
    /\ exports' = [exports EXCEPT ![e].pc = "resolved",
                                  ![e].reported = Append(@, Percent(100))]
    /\ exportedBlob' = Blob(exports[e].data)
    /\ progress' = Percent(100)
    /\ isExporting' = FALSE
    /\ UNCHANGED <<editorVars, playerVars, recordingVars, isExportDialogOpen, error>>

\* The next await of trimVideo fails: the catch block cleans up and throws,
\* and ExportDialog.handleExport goes on in its catch and finally blocks.
exportRejected(e) ==
    /\ lastEvent' = "exportRejected"
    /\ exports[e].pc \in {"writeInput", "extract", "writeConcat", "concat", "readOutput"}
    /\ exports' = [exports EXCEPT ![e].pc = "rejected"]
    /\ error' = "Video processing failed"
    /\ isExporting' = FALSE
    /\ UNCHANGED <<editorVars, playerVars, recordingVars, isExportDialogOpen, progress,
                   exportedBlob>>

\* The Cancel button is disabled while isExporting.
cancelExportDialog ==
    /\ lastEvent' = "cancelExportDialog"
    /\ isExportDialogOpen
    /\ ~isExporting
    /\ handleClose

\* Dialog onOpenChange: Escape, a click outside, the close button.
dismissExportDialog ==
    /\ lastEvent' = "dismissExportDialog"
    /\ isExportDialogOpen
    /\ handleClose

\* The Download button, shown while there is an exported blob.
handleDownload ==
    /\ lastEvent' = "handleDownload"
    /\ isExportDialogOpen
    /\ exportedBlob # NoBlob
    /\ isExportDialogOpen' = FALSE
    /\ UNCHANGED <<editorVars, playerVars, recordingVars, isExporting, progress, error,
                   exportedBlob, exports>>

ExportInit ==
    /\ clips \in PlayerClipLists
    /\ previewMode = FALSE
    /\ currentTime = 0
    /\ duration = PlayerDuration
    /\ mediaDuration = PlayerDuration
    /\ selectedClipId = NoClip
    /\ metadataPending = FALSE
    /\ now = 0
    /\ aiRequest = None
    /\ events = 0
    /\ lastEvent = "none"
    /\ videoTime = 0
    /\ isPlaying = FALSE
    /\ videoPaused = TRUE
    /\ DialogInit
    /\ RecordingInit

ExportNext ==
    \/ openExportDialog
    \/ ExportDialog_handleExport
    \/ \E e \in 1..Len(exports) : writeInputFile(e)
    \/ \E e \in 1..Len(exports) : extractSegment(e)
    \/ \E e \in 1..Len(exports) : writeConcatFile(e)
    \/ \E e \in 1..Len(exports) : concatenate(e)
    \/ \E e \in 1..Len(exports) : readOutputFile(e)
    \/ \E e \in 1..Len(exports) : exportResolved(e)
    \/ \E e \in 1..Len(exports) : exportRejected(e)
    \/ cancelExportDialog
    \/ dismissExportDialog
    \/ handleDownload

ExportSpec == ExportInit /\ [][ExportNext]_vars

\* ------------------------------------------------------- recording session
\* One step of the recording store, the service or a timer.
RecordingEvent(handler) ==
    /\ lastEvent' = handler
    /\ UNCHANGED <<editorVars, playerVars, exportVars>>

\* The timers left after clearInterval((get() as any)._durationTimer)
clearedTimers == timers \ {store.durationTimer}

\* delete (get() as any)._durationTimer
withoutTimer(s) == [s EXCEPT !.durationTimer = NoTimer]

\* RecordingService.cleanup
cleanup ==
    /\ recorder' = NoRecorder
    /\ recordingStartTime' = 0
    /\ screenTrackLive' = FALSE

\* RecordingService.getRecordingDuration
getRecordingDuration ==
    IF recordingStartTime = 0 THEN 0 ELSE dateNow - recordingStartTime

\* The Start Recording button, shown on the Setup tab (recordingState idle):
\* startRecording up to its await of recordingService.startRecording.
startRecording ==
    /\ store.recordingState = "idle"
    /\ store.recordingOptions.screen \/ store.recordingOptions.camera
    /\ startCall = None
    /\ recordersCreated < MaxRecordings
    /\ RecordingEvent("startRecording")
    /\ LET recordingOptions == store.recordingOptions
       IN  IF ~recordingOptions.screen /\ ~recordingOptions.camera
                /\ ~recordingOptions.audio
           THEN /\ store' = set(store,
                        [error |-> "Please select at least one recording source"])
                /\ UNCHANGED startCall
           ELSE /\ store' = set(store, [error |-> NoError,
                                        recordingState |-> "recording",
                                        recordingDuration |-> 0])
                /\ startCall' = [tag |-> "pending", options |-> recordingOptions]
    /\ UNCHANGED <<recorder, recordingStartTime, screenTrackLive, timers,
                   recordersCreated, dateNow, stopCall, stopResult>>

\* recordingService.startRecording resolves: the streams are open, the recorder
\* records, and the store starts the duration timer and keeps its handle.
startRecordingResolved ==
    /\ startCall # None
    /\ RecordingEvent("startRecordingResolved")
    /\ recorder' = "recording"
    /\ recordingStartTime' = dateNow
    /\ screenTrackLive' = (screenTrackLive \/ startCall.options.screen)
    /\ recordersCreated' = recordersCreated + 1
    /\ timers' = timers \cup {recordersCreated + 1}
    /\ store' = [store EXCEPT !.durationTimer = recordersCreated + 1]
    /\ startCall' = None
    /\ UNCHANGED <<dateNow, stopCall, stopResult>>

\* recordingService.startRecording throws (a permission is denied): the
\* service cleans up and the store goes back to idle with the error.
startRecordingRejected ==
    /\ startCall # None
    /\ RecordingEvent("startRecordingRejected")
    /\ cleanup
    /\ timers' = clearedTimers
    /\ store' = set(withoutTimer(store),
                    [recordingState |-> "idle", recordingDuration |-> 0,
                     error |-> "permission denied or unavailable"])
    /\ startCall' = None
    /\ UNCHANGED <<recordersCreated, dateNow, stopCall, stopResult>>

\* A faulty store: a failed stop also forgets the previous recording.
stopRecordingFailedAsReset(s, message) ==
    set(withoutTimer(s), [recordingState |-> "idle", recordingDuration |-> 0,
                          recordingBlob |-> NoBlob, recordingUrl |-> NoUrl,
                          error |-> message])

\* The catch block of stopRecording
stopRecordingFailed(s, message) ==
    set(withoutTimer(s), [recordingState |-> "idle", recordingDuration |-> 0,
                          error |-> message])

\* The end of the try block of stopRecording
stopRecordingSucceeded(s, blob) ==
    set(s, [recordingState |-> "idle", recordingBlob |-> blob,
            recordingUrl |-> createObjectURL(blob), error |-> NoError])

\* The Stop Recording button, shown while recording or paused: stopRecording
\* up to the recorder's stop, or to its end if the service has no recorder.
stopRecording ==
    /\ store.recordingState \in {"recording", "paused"}
    /\ ~stopCall
    /\ RecordingEvent("stopRecording")
    /\ timers' = clearedTimers
    /\ IF recorder = NoRecorder
       THEN /\ store' = stopRecordingFailed(store, "No recording in progress")
            /\ stopResult' = Threw
            /\ UNCHANGED stopCall
       ELSE /\ store' = set(withoutTimer(store), [recordingState |-> "processing"])
            /\ stopCall' = TRUE
            /\ UNCHANGED stopResult
    /\ UNCHANGED <<recorder, recordingStartTime, screenTrackLive,
                   recordersCreated, dateNow, startCall>>

\* The recorder has stopped and returns its blob: the service cleans up and
\* the store validates the blob.
stopRecordingResolved ==
    /\ stopCall
    /\ recorder # NoRecorder
    /\ RecordingEvent("stopRecordingResolved")
    /\ \E size \in BlobSizes :
         LET blob == RecordedBlob(recordersCreated, size)
         IN  /\ stopResult' = blob
             /\ IF blob.size = 0
                THEN /\ store' = stopRecordingFailed(store,
                                     "Recording failed - empty or invalid file")
                     /\ timers' = clearedTimers
                ELSE /\ store' = stopRecordingSucceeded(store, blob)
                     /\ UNCHANGED timers
    /\ cleanup
    /\ stopCall' = FALSE
    /\ UNCHANGED <<recordersCreated, dateNow, startCall>>

\* The awaited stop throws: the recorder rejects, or the service has lost its
\* recorder in the meantime and this.recorder.getBlob() fails.
stopRecordingRejected ==
    /\ stopCall
    /\ RecordingEvent("stopRecordingRejected")
    /\ store' = stopRecordingFailed(store,
                    IF recorder = NoRecorder THEN "TypeError"
                    ELSE "Failed to stop recording")
    /\ timers' = clearedTimers
    /\ stopResult' = Threw
    /\ stopCall' = FALSE
    /\ UNCHANGED <<recorder, recordingStartTime, screenTrackLive,
                   recordersCreated, dateNow, startCall>>

\* The Pause button, shown while recordingState is recording
pauseRecording ==
    /\ store.recordingState = "recording"
    /\ RecordingEvent("pauseRecording")
    /\ IF recorder = NoRecorder
       THEN /\ store' = set(store, [error |-> "No recording in progress"])
            /\ UNCHANGED recorder
       ELSE /\ recorder' = "paused"
            /\ store' = set(store, [recordingState |-> "paused"])
    /\ UNCHANGED <<recordingStartTime, screenTrackLive, timers, recordersCreated,
                   dateNow, startCall, stopCall, stopResult>>

\* The Resume button, shown while recordingState is paused
resumeRecording ==
    /\ store.recordingState = "paused"
    /\ RecordingEvent("resumeRecording")
    /\ IF recorder = NoRecorder
       THEN /\ store' = set(store, [error |-> "No recording in progress"])
            /\ UNCHANGED recorder
       ELSE /\ recorder' = "recording"
            /\ store' = set(store, [recordingState |-> "recording"])
    /\ UNCHANGED <<recordingStartTime, screenTrackLive, timers, recordersCreated,
                   dateNow, startCall, stopCall, stopResult>>

\* The callback of the duration timer with the handle timer, every 100 ms
durationTimerTick(timer) ==
    /\ timer \in timers
    /\ RecordingEvent("durationTimerTick")
    /\ IF store.recordingState = "recording"
       THEN /\ store' = set(store, [recordingDuration |-> getRecordingDuration])
            /\ UNCHANGED timers
       ELSE /\ timers' = timers \ {timer}
            /\ UNCHANGED store
    /\ UNCHANGED <<recorder, recordingStartTime, screenTrackLive,
                   recordersCreated, dateNow, startCall, stopCall, stopResult>>

\* Time passes.
timePasses ==
    /\ dateNow < MaxDateNow
    /\ dateNow' = dateNow + 1
    /\ RecordingEvent("timePasses")
    /\ UNCHANGED <<store, recorder, recordingStartTime, screenTrackLive, timers,
                   recordersCreated, startCall, stopCall, stopResult>>

\* The 'ended' event of the shared screen track (the user stops sharing): the
\* listener calls the service's own stopRecording, which stops the recorder,
\* drops its blob and cleans up.  Without a recorder the call only rejects.
screenTrackEnded ==
    /\ screenTrackLive
    /\ RecordingEvent("screenTrackEnded")
    /\ IF recorder # NoRecorder
       THEN cleanup
       ELSE /\ screenTrackLive' = FALSE
            /\ UNCHANGED <<recorder, recordingStartTime>>
    /\ UNCHANGED <<store, timers, recordersCreated, dateNow, startCall, stopCall,
                   stopResult>>

\* resetRecording: the Record New button, or the editor 100 ms after it has
\* taken the recording over
resetRecording ==
    /\ store.recordingUrl # NoUrl
    /\ store.recordingState = "idle"
    /\ RecordingEvent("resetRecording")
    /\ timers' = clearedTimers
    /\ store' = set(withoutTimer(store),
                    [recordingState |-> "idle", recordingDuration |-> 0,
                     recordingBlob |-> NoBlob, recordingUrl |-> NoUrl,
                     error |-> NoError])
    /\ UNCHANGED <<recorder, recordingStartTime, screenTrackLive,
                   recordersCreated, dateNow, startCall, stopCall, stopResult>>

\* A source switch of the Setup tab: setRecordingOptions({ [source]: checked })
setRecordingOptions(source, checked) ==
    /\ store.recordingState = "idle"
    /\ RecordingEvent("setRecordingOptions")
    /\ store' = [store EXCEPT !.recordingOptions[source] = checked]
    /\ UNCHANGED <<recorder, recordingStartTime, screenTrackLive, timers,
                   recordersCreated, dateNow, startCall, stopCall, stopResult>>

RecordingNext ==
    \/ startRecording
    \/ startRecordingResolved
    \/ startRecordingRejected
    \/ stopRecording
    \/ stopRecordingResolved
    \/ stopRecordingRejected
    \/ pauseRecording
    \/ resumeRecording
    \/ \E timer \in 1..MaxRecordings : durationTimerTick(timer)
    \/ timePasses
    \/ screenTrackEnded
    \/ resetRecording
    \/ \E source \in {"screen", "camera", "audio"}, checked \in BOOLEAN :
         setRecordingOptions(source, checked)

RecordingSpec == Init /\ [][RecordingNext]_vars

\* -------------------------------------------------------------- properties
\* Length of a clip's source interval.
IntervalLength(clip) == clip.endTime - clip.startTime

\* The list cs without its element at index i.
WithoutIndex(cs, i) == SubSeq(cs, 1, i - 1) \o SubSeq(cs, i + 1, Len(cs))

\* Index of the selected clip when the playhead lies strictly inside its
\* interval, 0 when no clip is selected, the selection names no clip, or the
\* playhead is on or outside the clip's bounds.
CutTarget ==
    IF selectedClipId = NoClip THEN 0
    ELSE IF ~(\E i \in 1..Len(clips) : clips[i].id = selectedClipId) THEN 0
    ELSE LET i == FindIndex(clips, selectedClipId)
         IN  IF clips[i].startTime < currentTime /\ currentTime < clips[i].endTime
             THEN i ELSE 0

\* C1: a Cut with the playhead t strictly inside the selected clip replaces
\* that clip by [sourceStart, t) at the same index with the same position and
\* [t, sourceEnd) right after it with position + (t - sourceStart); the two
\* lengths add up to the original length, the total preview duration is
\* unchanged, and every other clip is unchanged and in the same order.
C1_CutSplitsSelectedClip ==
    [][(lastEvent' = "handleCut" /\ CutTarget # 0) =>
        LET i == CutTarget
            old == clips[i]
            t == currentTime
        IN  /\ Len(clips') = Len(clips) + 1
            /\ clips'[i].id = old.id
            /\ clips'[i].startTime = old.startTime
            /\ clips'[i].endTime = t
            /\ clips'[i].position = old.position
            /\ clips'[i + 1].startTime = t
            /\ clips'[i + 1].endTime = old.endTime
            /\ clips'[i + 1].position = old.position + (t - old.startTime)
            /\ IntervalLength(clips'[i]) + IntervalLength(clips'[i + 1])
                  = IntervalLength(old)
            /\ clips'[i].duration + clips'[i + 1].duration = IntervalLength(old)
            /\ getPreviewDuration(clips') = getPreviewDuration(clips)
            /\ \A j \in 1..(i - 1) : clips'[j] = clips[j]
            /\ \A j \in (i + 1)..Len(clips) : clips'[j + 1] = clips[j]
      ]_vars

\* A cut has just split the selected clip at the playhead: the selected clip
\* ends at the playhead and the next clip starts there, offset by the length
\* of the first part.
C1_CutHasSplit ==
    /\ lastEvent = "handleCut"
    /\ \E i \in 1..(Len(clips) - 1) :
          /\ clips[i].id = selectedClipId
          /\ clips[i].startTime < clips[i].endTime
          /\ clips[i].endTime = currentTime
          /\ clips[i + 1].startTime = currentTime
          /\ clips[i + 1].startTime < clips[i + 1].endTime
          /\ clips[i + 1].position = clips[i].position + IntervalLength(clips[i])
          /\ clips[i + 1].position > 0

\* C2: a Cut that cannot apply (no selection, selection not in the list, or
\* playhead t <= sourceStart or t >= sourceEnd of the selected clip) leaves
\* the clip list, the selection, the mode and the playhead unchanged.
C2_CutThatCannotApplyIsNoOp ==
    [][(lastEvent' = "handleCut" /\ CutTarget = 0) =>
        UNCHANGED <<clips, selectedClipId, previewMode, currentTime>>]_vars

\* A cut has just been ignored: the selected clip is in the list, has a
\* proper interval, and the playhead is not after its start (a cut that
\* applies leaves the playhead at the end of the selected clip).
C2_CutWasIgnored ==
    /\ lastEvent = "handleCut"
    /\ \E i \in 1..Len(clips) :
          /\ clips[i].id = selectedClipId
          /\ FindIndex(clips, selectedClipId) = i
          /\ clips[i].startTime < clips[i].endTime
          /\ currentTime <= clips[i].startTime

\* C3: Delete(clipId) removes exactly the clip with that id: when the id is
\* in the list the list is the old one without that one clip (length - 1),
\* when it is not the list is unchanged.
C3_DeleteRemovesExactlyOneClip ==
    [][\A clipId \in DeleteIds :
        handleDeleteClip(clipId) =>
            IF \E i \in 1..Len(clips) : clips[i].id = clipId
            THEN /\ Len(clips') = Len(clips) - 1
                 /\ \E i \in 1..Len(clips) :
                       /\ clips[i].id = clipId
                       /\ clips' = WithoutIndex(clips, i)
            ELSE clips' = clips
      ]_vars

\* C4: after a Delete that removes a clip the playhead is 0 and the mode is
\* Edited when clips remain, Original when the list became empty, whatever
\* the mode and the playhead were before.
C4_DeleteSetsModeAndPlayhead ==
    [][(lastEvent' = "handleDeleteClip" /\ Len(clips') < Len(clips)) =>
        /\ currentTime' = 0
        /\ (Len(clips') > 0 => previewMode')
        /\ (Len(clips') = 0 => ~previewMode')
      ]_vars

\* The fifth event, a Delete, has just removed the processed clip of a
\* splice (a splice takes four events: upload, metadata, request,
\* completion): its before and after clips remain, next to each other.
C4_DeleteLeftClips ==
    /\ lastEvent = "handleDeleteClip"
    /\ events = 5
    /\ Len(clips) = 2
    /\ clips[1].id.kind = "before"
    /\ clips[2].id.kind = "after"
    /\ previewMode
    /\ currentTime = 0

\* C5: the mode changes only through the preview toggle or through a Delete
\* that removes a clip, and a Delete of an id that is not in the list leaves
\* the mode and the playhead unchanged.
C5_ModeChangesOnlyByToggleOrDelete ==
    [][/\ (previewMode' # previewMode =>
              \/ lastEvent' = "handleTogglePreview"
              \/ (lastEvent' = "handleDeleteClip" /\ Len(clips') < Len(clips)))
       /\ (handleDeleteClip(UnknownId) => UNCHANGED <<previewMode, currentTime>>)
      ]_vars

\* C6: the mode starts as Original, and Edited mode implies at least one clip.
C6_EditedModeHasClips ==
    /\ (events = 0 => ~previewMode)
    /\ (previewMode => Len(clips) >= 1)

\* Edited mode, entered by the toggle, with a clip in the list.
C6_EditedByToggle ==
    /\ lastEvent = "handleTogglePreview"
    /\ previewMode
    /\ Len(clips) >= 1

\* C7: after a Cut, Delete, Drag or Splice that changed the clip list, every
\* clip has sourceStart < sourceEnd.
C7_ClipsHavePositiveLength ==
    [][(/\ lastEvent' \in {"handleCut", "handleDeleteClip", "handleClipDrag",
                           "handleVideoProcessed"}
        /\ clips' # clips) =>
        \A i \in 1..Len(clips') : clips'[i].startTime < clips'[i].endTime
      ]_vars

C9_DragChangesOnlyPosition ==
    [][lastEvent' = "handleClipDrag" =>
        /\ Len(clips') = Len(clips)
        /\ \A j \in 1..Len(clips) :
              /\ clips'[j].id = clips[j].id
              /\ clips'[j].startTime = clips[j].startTime
              /\ clips'[j].endTime = clips[j].endTime
              /\ clips'[j].duration = clips[j].duration
      ]_vars

\* C10: a Splice replaces the one old clip, at its index in the list, by the
\* clips before (present exactly when the span starts after the old clip's
\* sourceStart), processed, after (present exactly when the span ends before
\* the old clip's sourceEnd), in this order; the clips before and after the
\* old clip in the list keep their fields and their order.
C10_SpliceReplacesOldClip ==
    [][(/\ lastEvent' = "handleVideoProcessed"
        /\ \E i \in 1..Len(clips) : clips[i].id = aiRequest.selectedClipId) =>
        LET i == FindIndex(clips, aiRequest.selectedClipId)
            old == clips[i]
            hasBefore == aiRequest.startTime > old.startTime
            hasAfter == aiRequest.endTime < old.endTime
            kinds == (IF hasBefore THEN <<"before">> ELSE <<>>)
                     \o <<"processed">>
                     \o (IF hasAfter THEN <<"after">> ELSE <<>>)
        IN  /\ Len(clips') = Len(clips) - 1 + Len(kinds)
            /\ \A k \in 1..Len(kinds) : clips'[i - 1 + k].id.kind = kinds[k]
            /\ \A j \in 1..(i - 1) : clips'[j] = clips[j]
            /\ \A j \in (i + 1)..Len(clips) : clips'[j - 1 + Len(kinds)] = clips[j]
      ]_vars

\* C11: the clips a Splice puts in place of the old clip (the clip the handler
\* replaces) lie within [old.sourceStart, old.sourceEnd], do not overlap, and
\* together cover exactly the old clip's interval.
C11_ReplacementsPartitionOldClip ==
    [][lastEvent' = "handleVideoProcessed" =>
        LET cs == aiRequest.clips
            i == FindIndex(cs, aiRequest.selectedClipId)
            old == cs[i]
            k == Len(clips') - Len(cs) + 1
            repl == SubSeq(clips', i, i + k - 1)
        IN  /\ repl[1].startTime = old.startTime
            /\ repl[k].endTime = old.endTime
            /\ \A j \in 1..k :
                  /\ old.startTime <= repl[j].startTime
                  /\ repl[j].startTime <= repl[j].endTime
                  /\ repl[j].endTime <= old.endTime
            /\ \A j \in 1..(k - 1) : repl[j].endTime = repl[j + 1].startTime
      ]_vars

\* How many clips of cs have the source interval [s, e].
ClipsWithInterval(cs, s, e) ==
    Cardinality({i \in 1..Len(cs) : cs[i].startTime = s /\ cs[i].endTime = e})

\* How many segments have the source interval [s, e].
SegmentsWithInterval(segments, s, e) ==
    Cardinality({k \in 1..Len(segments) :
                    segments[k].originalStart = s /\ segments[k].originalEnd = e})

\* The segment list is the clip list laid out end to end from preview time 0
\* in ascending order of source start.
IsSegmentLayout(segments, cs) ==
    /\ Len(segments) = Len(cs)
    /\ \A k \in 1..Len(segments) :
          SegmentsWithInterval(segments, segments[k].originalStart, segments[k].originalEnd)
              = ClipsWithInterval(cs, segments[k].originalStart, segments[k].originalEnd)
    /\ \A k \in 1..(Len(segments) - 1) :
          /\ segments[k].originalStart <= segments[k + 1].originalStart
          /\ segments[k + 1].startTime = segments[k].endTime
    /\ \A k \in 1..Len(segments) :
          segments[k].endTime - segments[k].startTime
              = segments[k].originalEnd - segments[k].originalStart
    /\ Len(segments) > 0 =>
          /\ segments[1].startTime = 0
          /\ segments[Len(segments)].endTime = getPreviewDuration(cs)

\* C12: for every clip list the player is given, createPreviewSegments has one
\* segment per clip, in ascending source start whatever the list order, the
\* first starting at preview time 0, each as long as its clip, each starting
\* where the one before ends, the last ending at getPreviewDuration; an empty
\* list gives no segments; and the time update that builds the segments leaves
\* the clip list as it was.
C12_SegmentsLayOutClipsInSourceOrder ==
    /\ [](IsSegmentLayout(createPreviewSegments(clips), clips))
    /\ []((clips = <<>>) => (createPreviewSegments(clips) = <<>>))
    /\ [][lastEvent' = "VideoPlayer.handleTimeUpdate" => clips' = clips]_vars

\* A time update in Edited mode has reported a preview time inside the second
\* segment of a list whose clips are not in source order.
C12_SegmentsOfUnsortedList ==
    /\ lastEvent = "VideoPlayer.handleTimeUpdate"
    /\ previewMode
    /\ Len(clips) = 2
    /\ clips[1].startTime > clips[2].endTime
    /\ clips[2].startTime < clips[2].endTime
    /\ createPreviewSegments(clips)[1].originalStart = clips[2].startTime
    /\ FindSegment(videoTime, clips) = 2
    /\ currentTime = previewTimeAt(videoTime, clips)
    /\ currentTime > createPreviewSegments(clips)[2].startTime

\* Segment k of the layout of cs holds the preview time p.
SegmentHolds(cs, k, p) ==
    /\ createPreviewSegments(cs)[k].startTime <= p
    /\ p <= createPreviewSegments(cs)[k].endTime

\* The preview times asked about: from before 0 to past the end of the preview.
PreviewTimes(cs) == (0 - 1)..(getPreviewDuration(cs) + 1)

\* C13: getOriginalTime answers from the first segment that holds the preview
\* time, with that segment's source start plus the offset into it, so the
\* earlier segment answers at a time two segments share; it answers 0 when no
\* segment holds the time; and a seek in Edited mode puts the media at the
\* answer.
C13_OriginalTimeFromFirstSegment ==
    /\ [](\A p \in PreviewTimes(clips) :
            LET segments == createPreviewSegments(clips)
            IN  /\ (\A k \in 1..Len(segments) : ~SegmentHolds(clips, k, p))
                      => getOriginalTime(p, clips) = 0
                /\ \A k \in 1..Len(segments) :
                      (SegmentHolds(clips, k, p)
                       /\ \A j \in 1..(k - 1) : ~SegmentHolds(clips, j, p))
                      => getOriginalTime(p, clips)
                           = segments[k].originalStart + (p - segments[k].startTime))
    /\ [][(lastEvent' = "VideoPlayer.seek" /\ previewMode /\ currentTime' # effectiveCurrentTime)
            => \E k \in 1..Len(clips) :
                  /\ SegmentHolds(clips, k, currentTime')
                  /\ \A j \in 1..(k - 1) : ~SegmentHolds(clips, j, currentTime')
                  /\ videoTime' = createPreviewSegments(clips)[k].originalStart
                        + (currentTime' - createPreviewSegments(clips)[k].startTime)
         ]_vars

\* A seek in Edited mode to the preview time that two segments with a gap
\* between their clips share has put the media at the end of the earlier clip.
C13_SeekToSharedBoundary ==
    /\ lastEvent = "VideoPlayer.seek"
    /\ previewMode
    /\ Len(clips) = 2
    /\ LET segments == createPreviewSegments(clips)
       IN  /\ segments[1].originalStart < segments[1].originalEnd
           /\ segments[1].originalEnd < segments[2].originalStart
           /\ segments[2].originalStart < segments[2].originalEnd
           /\ currentTime = segments[1].endTime
           /\ videoTime = segments[1].originalEnd

\* C14: in a session of cuts and deletes, a time update in Edited mode at a
\* media position inside a clip reports a preview time that getOriginalTime
\* maps back to that position, so the seek effect leaves the media where it is.
C14_TimeUpdateRoundTrip ==
    [][(lastEvent' = "VideoPlayer.handleTimeUpdate" /\ previewMode
            /\ InCurrentClip(videoTime, clips))
        => /\ getOriginalTime(previewTimeAt(videoTime, clips), clips) = videoTime
           /\ videoTime' = videoTime
      ]_vars

\* The first segment of the layout of cs that starts at the source time s.
SegmentStartingAt(s, cs) ==
    LET segments == createPreviewSegments(cs)
        starting == {k \in 1..Len(segments) : segments[k].originalStart = s}
    IN  segments[CHOOSE k \in starting : \A j \in starting : k <= j]

\* The smallest start time of cs that is greater than t.
SmallestLaterStart(t, cs) ==
    CHOOSE i \in 1..Len(cs) :
        /\ cs[i].startTime > t
        /\ \A j \in 1..Len(cs) : cs[j].startTime > t => cs[i].startTime <= cs[j].startTime

SegmentIntervals(cs) ==
    [k \in 1..Len(cs) |->
        [originalStart |-> createPreviewSegments(cs)[k].originalStart,
         originalEnd |-> createPreviewSegments(cs)[k].originalEnd]]

\* C16: the source intervals an export extracts are, one by one and in the
\* same order, the source intervals of createPreviewSegments of the clip list,
\* all of them once the loop is over, and the exported blob is their
\* concatenation in that order.
C16_ExportExtractsInSegmentOrder ==
    /\ \A e \in 1..Len(exports) :
          /\ Len(exports[e].segmentFiles) <= Len(clips)
          /\ exports[e].segmentFiles
                = SubSeq(SegmentIntervals(clips), 1, Len(exports[e].segmentFiles))
          /\ exports[e].pc \in {"writeConcat", "concat", "readOutput", "cleanup", "resolved"}
                => exports[e].segmentFiles = SegmentIntervals(clips)
    /\ exportedBlob # NoBlob => exportedBlob.data = SegmentIntervals(clips)

\* An export of two clips listed against their source order has delivered
\* its blob, the later-listed clip first.
C16_ExportedUnsortedList ==
    /\ exportedBlob # NoBlob
    /\ Len(clips) = 2
    /\ clips[1].startTime > clips[2].startTime
    /\ Len(exportedBlob.data) = 2
    /\ exportedBlob.data[1].originalStart = clips[2].startTime
    /\ exportedBlob.data[1].originalEnd = clips[2].endTime

\* C17: the progress values of one export lie in [0, 100] and never decrease,
\* and 100 is reported only by an export that has read its output, never by
\* one that failed.
C17_ProgressBoundedMonotoneAndFullOnlyAtEnd ==
    \A e \in 1..Len(exports) :
        LET reported == exports[e].reported
        IN  /\ \A k \in 1..Len(reported) :
                  /\ ProgressLeq(Percent(0), reported[k])
                  /\ ProgressLeq(reported[k], Percent(100))
                  /\ ProgressLeq(Percent(100), reported[k])
                        => /\ exports[e].pc = "resolved"
                           /\ exports[e].data = exports[e].segmentFiles
                           /\ Len(exports[e].data) = Len(exports[e].sortedClips)
            /\ \A k \in 1..(Len(reported) - 1) : ProgressLeq(reported[k], reported[k + 1])

\* An export of two clips has reported all its six values, the last one 100,
\* and another export has failed after reporting some.
C17_ReportedAllValues ==
    \E e, f \in 1..Len(exports) :
        /\ exports[e].pc = "resolved"
        /\ Len(exports[e].sortedClips) = 2
        /\ Len(exports[e].reported) = 6
        /\ exports[e].reported[6] = Percent(100)
        /\ exports[f].pc = "rejected"
        /\ Len(exports[f].reported) > 1

\* C18: an export that fails, at any of its awaits or for want of a video or
\* of clips, leaves the dialog with an error message, no exported blob and
\* isExporting false, and leaves the clip list as it was.
C18_FailedExportLeavesNoBlob ==
    [][(lastEvent' = "exportRejected"
            \/ (lastEvent' = "ExportDialog.handleExport" /\ ~isExporting'))
        => /\ error' # NoError
           /\ exportedBlob' = NoBlob
           /\ isExporting' = FALSE
           /\ clips' = clips
      ]_vars

\* C19: at most one export is in flight at any time.
C19_AtMostOneExportInFlight == Cardinality(InFlight) <= 1

\* C20: the clips of the list have pairwise distinct ids.
C20_ClipIdsAreDistinct ==
    \A i, j \in 1..Len(clips) : clips[i].id = clips[j].id => i = j

\* C21: the duration stored on every clip is its endTime minus its startTime.
C21_DurationIsIntervalLength ==
    \A i \in 1..Len(clips) : clips[i].duration = clips[i].endTime - clips[i].startTime

\* C22: the selection is empty or is the id of a clip of the list.
C22_SelectionNamesClipOfList ==
    selectedClipId = NoClip \/ FindIndex(clips, selectedClipId) # 0

\* C23: the source intervals of two clips of the list share at most an
\* endpoint, and getPreviewDuration does not exceed the duration of the asset.
C23_ClipsDoNotOverlap ==
    /\ \A i, j \in 1..Len(clips) :
          i # j => \/ clips[i].endTime <= clips[j].startTime
                   \/ clips[j].endTime <= clips[i].startTime
    /\ ~metadataPending => getPreviewDuration(clips) <= duration

\* C24: a Cut in Edited mode splits the selected clip at the source time
\* that getOriginalTime gives for the playhead's preview time, and applies
\* exactly when that source time lies strictly inside the selected clip.
C24_EditedCutSplitsAtSourceTime ==
    [][(lastEvent' = "handleCut" /\ previewMode)
        => LET sourceTime == getOriginalTime(effectiveCurrentTime, clips)
           IN  IF CutApplies(clips, selectedClipId, sourceTime)
               THEN clips' = CutClips(clips, FindIndex(clips, selectedClipId),
                                      sourceTime, now')
               ELSE clips' = clips
      ]_vars

\* C25: when the processed segment arrives, the Splice is applied to the clip
\* list as it is at that moment: the clip with the request's id is replaced
\* there, and every other clip of the list is in the list afterwards.
C25_SpliceAppliesToCurrentList ==
    [][lastEvent' = "handleVideoProcessed"
        => LET i == FindIndex(clips, aiRequest.selectedClipId)
           IN  /\ i # 0 =>
                    clips' = SpliceClips(clips, i,
                                 ReplacementClips(clips[i], aiRequest.startTime,
                                                  aiRequest.endTime, now'))
               /\ \A j \in 1..Len(clips) :
                    j # i => \E k \in 1..Len(clips') : clips'[k] = clips[j]
      ]_vars

\* C26: during playback in Edited mode with no user input, a time update that
\* finds the media inside a clip never moves the media to an earlier position,
\* so the seek effect never takes playback back to an earlier clip.
C26_TimeUpdateNeverMovesBack ==
    [][(lastEvent' = "VideoPlayer.handleTimeUpdate"
            /\ InCurrentClip(videoTime, clips))
          => videoTime' >= videoTime]_vars

\* C27: playback only reads the Clip List: no time update, seek, media-ended
\* event, play/pause or click of the player changes the content or the order
\* of the list.
C27_PlaybackLeavesClipsAlone ==
    [][lastEvent' \in {"VideoPlayer.handleTimeUpdate", "VideoPlayer.handleVideoEnded",
                       "VideoPlayer.seek", "VideoPlays", "handlePlay",
                       "handleVideoClick"}
          => clips' = clips]_vars

\* C28: stopRecording sets recordingState to processing while it waits for the
\* recorder and always ends with recordingState idle.  When the service
\* returned a non-empty blob, recordingBlob is that blob, recordingUrl its
\* object URL and error is null; when the service threw or the blob is empty,
\* error is set, recordingDuration is 0 and recordingBlob and recordingUrl
\* keep the values they had.
C28_StopRecordingOutcome ==
    [][/\ (lastEvent' = "stopRecording" /\ stopCall')
            => store'.recordingState = "processing"
       /\ (/\ lastEvent' \in {"stopRecording", "stopRecordingResolved",
                              "stopRecordingRejected"}
           /\ ~stopCall')
            => /\ store'.recordingState = "idle"
               /\ IF stopResult' # Threw /\ stopResult'.size > 0
                  THEN /\ store'.recordingBlob = stopResult'
                       /\ store'.recordingUrl = createObjectURL(stopResult')
                       /\ store'.error = NoError
                  ELSE /\ store'.error # NoError
                       /\ store'.recordingDuration = 0
                       /\ store'.recordingBlob = store.recordingBlob
                       /\ store'.recordingUrl = store.recordingUrl
      ]_vars

\* A stop has failed while the store held an earlier recording, and the store
\* is idle with the error and still holds that recording.
C28_FailedStopKeptRecording ==
    /\ lastEvent \in {"stopRecording", "stopRecordingResolved",
                      "stopRecordingRejected"}
    /\ ~stopCall
    /\ store.recordingState = "idle"
    /\ store.error # NoError
    /\ store.recordingBlob # NoBlob
    /\ store.recordingUrl = createObjectURL(store.recordingBlob)

\* C29: whenever a started recording is in the state recording, a duration
\* timer is active, after startRecording as well as after a pause, any number
\* of timer ticks and a resume.
C29_TimerActiveWhileRecording ==
    (store.recordingState = "recording" /\ startCall = None) => timers # {}

\* C30: once startRecording has completed, whenever the store is in the state
\* recording or paused the RecordingService holds a recorder, so that the next
\* stopRecording can return the blob; the end of the shared screen track does
\* not leave the store recording without a recorder.
C30_RecorderHeldWhileRecording ==
    (store.recordingState \in {"recording", "paused"} /\ startCall = None)
        => recorder # NoRecorder

=============================================================================
